---- MODULE Spec2Model ----
(***************************************************************************)
(* A model of the day2 fetch-transform-persist pipeline:                   *)
(*   async_crawler.py        AsyncCrawler (semaphore gate, fetch_one,      *)
(*                           fetch_many)                                   *)
(*   ArticleDatabase.py      ArticleDatabase (_get_connection,             *)
(*                           insert_article, get_articles,                 *)
(*                           search_by_keyword, get_stats,                 *)
(*                           delete_old_articles)                          *)
(*   crawler_db_pipeline.py  CrawlerPipeline (article_to_record,           *)
(*                           crawl_and_store)                              *)
(* Strings are sequences of character codes.  Coroutines are interleaved   *)
(* at their await points; everything between two awaits is one step.       *)
(***************************************************************************)
EXTENDS Integers, Sequences, FiniteSets, TLC

VARIABLES
    rows,       \* the articles table: a set of row records
    seq,        \* sqlite_sequence of the AUTOINCREMENT id column
    now,        \* the wall clock (time.time() / CURRENT_TIMESTAMP)
    ops,        \* number of top-level store-affecting calls made so far
    phase,      \* where the current top-level call stands
    caller,     \* who called fetch_many: "pipeline" (crawl_and_store), "direct" (inside
                \* async with AsyncCrawler(...)) or "bare" (on a crawler never entered)
    urls,       \* fetch_many's argument
    resp,       \* what the network will answer to the request of each position
    pc,         \* position of each fetch_one coroutine
    results,    \* what each fetch_one coroutine ended with (gather's result slots)
    semaphore,  \* self.semaphore._value, the number of free permits
    capacity,   \* max_concurrent, the value the semaphore was built with
    cstats,     \* AsyncCrawler.stats
    session,    \* whether self.session is an open ClientSession
    articles,   \* the list fetch_many returned
    source,     \* crawl_and_store's source label
    stats,      \* crawl_and_store's stats dict
    idx,        \* number of iterations of the store loop completed
    calls,      \* the store calls of the current top-level call, each with its
                \* argument, the row it found and its outcome
    art,        \* record mapper: the Article handed to article_to_record
    rec,        \* record mapper: the dict article_to_record returned
    conns,      \* number of sqlite3 connections that are open
    stream,     \* the get_articles generator a consumer holds, if any
    html,       \* body reader: the text response.text() returned
    soup,       \* body reader: the text handed to the parser
    fs,         \* code analyzer: the entries of the file system below the root
    analyzer,   \* the CodeAnalyzer: its root and its stats dict
    scanned,    \* the latest scan: the call that ran it, its pattern and the list
                \* of CodeFiles it yielded
    report,     \* what the latest generate_report returned, with its top_n
    wrapper     \* retry: one call of a wrapped function, its position in the loop,
                \* what it did so far and how it ended

vars == <<rows, seq, now, ops, phase, caller, urls, resp, pc, results, semaphore,
          capacity, cstats, session, articles, source, stats, idx, calls, art, rec,
          conns, stream, html, soup, fs, analyzer, scanned, report, wrapper>>

-----------------------------------------------------------------------------
(* Bounds of the model *)

MaxUrls == 3        \* longest batch handed to fetch_many directly
MaxPipeUrls == 2    \* longest batch handed to crawl_and_store
MaxConcurrent == 2  \* largest max_concurrent
MaxOps == 2         \* top-level store-affecting calls per behaviour
MaxNow == 1         \* last clock value
MaxOver == 2        \* how far past a cap the longest mapped text reaches
MaxRows == 3        \* rows of the largest store that is queried
MaxEntries == 3     \* entries of the largest tree that is scanned
MaxTop == 2         \* largest top_n asked of generate_report
MaxAttempts == 3    \* largest max_attempts given to retry

(* Program constants *)

TitleCap == 200             \* article.title[:200]
ContentCap == 2000          \* article.content[:2000]
ExtractTitleCap == 200      \* get_text(strip=True)[:200]
ExtractContentCap == 10000  \* get_text(...)[:10000]
RecentDays == 7             \* is_recent: days <= 7
BodyCap == 1000000          \* html[:1_000_000]

-----------------------------------------------------------------------------
(* Values *)

Min(a, b) == IF a <= b THEN a ELSE b

\* s[:n] for n >= 0
Prefix(s, n) == SubSeq(s, 1, Min(Len(s), n))

Urls == {"u1", "u2"}
Sources == {"httpbin", "quotes"}

\* A body (the text of a response) and a parsed page: the text of its title tag,
\* the text of its content container, and after them pad more characters of
\* markup and other text.
Pages ==
    {[title |-> <<1>>, content |-> <<1>>, pad |-> 0],
     [title |-> <<2>>, content |-> <<2>>, pad |-> 0]}

\* What the network does with one request.
\*   ok      : status 200 and the body is delivered
\*   http    : a response with a status other than 200
\*   timeout : asyncio.TimeoutError
\*   error   : any other Exception raised while requesting or reading
\*   raise   : an exception that leaves fetch_one (raised outside its try block)
Responses ==
    [kind : {"ok"}, page : Pages]
    \cup [kind : {"http"}, status : {404}]
    \cup [kind : {"timeout", "error", "raise"}]

None == [tag |-> "None"]
Raised == [tag |-> "Exception"]

Article(title, url, content, fetched_at, status) ==
    [tag |-> "Article", title |-> title, url |-> url, content |-> content,
     fetched_at |-> fetched_at, status |-> status]

IsArticle(r) == r.tag = "Article"

Id(n) == [tag |-> "id", id |-> n]

RECURSIVE SelectSeqBy(_, _)
\* [x for x in s if Keep(x)] with Keep given as the set of kept elements
SelectSeqBy(s, keep) ==
    IF s = <<>> THEN <<>>
    ELSE IF Head(s) \in keep THEN <<Head(s)>> \o SelectSeqBy(Tail(s), keep)
         ELSE SelectSeqBy(Tail(s), keep)

Range(f) == {f[i] : i \in DOMAIN f}

-----------------------------------------------------------------------------
(* ArticleDatabase *)

\* A NULL title (Python None): the column is declared TEXT NOT NULL.
NullText == <<0, 0>>

\* datetime.fromtimestamp(t).isoformat(): the timestamp rendered as text, in time order
IsoFormat(t) == [iso |-> t]

Times == 0..MaxNow

\* The dicts a caller may hand to insert_article.
Records ==
    {[title |-> p.title, url |-> u, content |-> p.content, source |-> src,
      fetched_at |-> IsoFormat(t)] :
        p \in Pages \cup {[title |-> NullText, content |-> <<1>>, pad |-> 0]},
        u \in Urls, src \in Sources, t \in Times}

\* How _get_connection ends the transaction of one insert_article call.  The
\* except clause of insert_article returns None inside the with block, so the
\* generator resumes after its yield as on success and calls conn.commit();
\* conn.rollback() runs only when an exception reaches the context manager,
\* that is when commit itself raises.
TransactionEnd(r, fault) ==
    CASE fault = "connect" -> "none"
      [] fault = "commit" -> "rollback"
      [] OTHER -> "commit"

\* One call of insert_article as the caller saw it, and how its transaction ended.
InsertCall(r, fault, before, ret) ==
    [tag |-> "insert_article", rec |-> r, fault |-> fault, before |-> before, ret |-> ret,
     txn |-> TransactionEnd(r, fault)]

\* One call of delete_old_articles as the caller saw it.
DeleteCall(days, deleted) ==
    [tag |-> "delete_old_articles", days |-> days, ret |-> deleted]

NoRow == [tag |-> "norow"]

HasUrl(rs, u) == \E row \in rs : row.url = u

RowOf(rs, u) == IF HasUrl(rs, u) THEN CHOOSE row \in rs : row.url = u ELSE NoRow

NewRow(id, r, t) ==
    [id |-> id, title |-> r.title, url |-> r.url, content |-> r.content,
     source |-> r.source, category |-> "NULL", fetched_at |-> r.fetched_at,
     created_at |-> t]

\* Upsert as ON CONFLICT(url) DO NOTHING
UpsertDoNothing(rs, s, t, r) ==
    IF HasUrl(rs, r.url)
    THEN [rows |-> rs, seq |-> s + 1, id |-> RowOf(rs, r.url).id]
    ELSE [rows |-> rs \cup {NewRow(s + 1, r, t)}, seq |-> s + 1, id |-> s + 1]

\* Upsert as a plain INSERT into a table whose url column is not UNIQUE
UpsertAppend(rs, s, t, r) ==
    [rows |-> rs \cup {NewRow(s + 1, r, t)}, seq |-> s + 1, id |-> s + 1]

\* Upsert as INSERT OR REPLACE: the old row is deleted and a new one inserted
UpsertReplace(rs, s, t, r) ==
    [rows |-> {row \in rs : row.url # r.url} \cup {NewRow(s + 1, r, t)},
     seq |-> s + 1, id |-> s + 1]

\* Upsert with the source label among the updated columns
UpsertAllColumns(rs, s, t, r) ==
    IF HasUrl(rs, r.url)
    THEN LET old == RowOf(rs, r.url)
             new == [old EXCEPT !.title = r.title, !.content = r.content,
                                !.source = r.source, !.fetched_at = r.fetched_at]
         IN [rows |-> (rs \ {old}) \cup {new}, seq |-> s + 1, id |-> old.id]
    ELSE [rows |-> rs \cup {NewRow(s + 1, r, t)}, seq |-> s + 1, id |-> s + 1]

\* Upsert that updates only WHERE excluded.fetched_at >= articles.fetched_at
UpsertNewerOnly(rs, s, t, r) ==
    IF HasUrl(rs, r.url)
    THEN LET old == RowOf(rs, r.url)
             new == IF r.fetched_at.iso >= old.fetched_at.iso
                    THEN [old EXCEPT !.title = r.title, !.content = r.content,
                                     !.fetched_at = r.fetched_at]
                    ELSE old
         IN [rows |-> (rs \ {old}) \cup {new}, seq |-> s + 1, id |-> old.id]
    ELSE [rows |-> rs \cup {NewRow(s + 1, r, t)}, seq |-> s + 1, id |-> s + 1]

\* INSERT ... ON CONFLICT(url) DO UPDATE SET title, content, fetched_at ... RETURNING id
\* on the table of _init_tables, executed at clock t with sqlite_sequence s.
\* The statement draws a rowid from the sequence before the conflict is seen.
Upsert(rs, s, t, r) ==
    IF HasUrl(rs, r.url)
    THEN LET old == RowOf(rs, r.url)
             new == [old EXCEPT !.title = r.title, !.content = r.content,
                                !.fetched_at = r.fetched_at]
         IN [rows |-> (rs \ {old}) \cup {new}, seq |-> s + 1, id |-> old.id]
    ELSE [rows |-> rs \cup {NewRow(s + 1, r, t)}, seq |-> s + 1, id |-> s + 1]

\* What can go wrong in the storage layer during one call.
\*   connect : sqlite3.connect raises
\*   execute : conn.execute raises sqlite3.Error (locked database, ...)
\*   commit  : conn.commit raises
Faults == {"none", "connect", "execute", "commit"}

\* The statement violates a constraint of the table (title TEXT NOT NULL).
ViolatesConstraint(r) == r.title = NullText

\* insert_article(article) under _get_connection: the store afterwards and the outcome
\* (an id, None, or an exception leaving the call).
insert_article(rs, s, t, r, fault) ==
    IF fault = "connect"
    THEN \* raised by sqlite3.connect, before the try of _get_connection and
         \* outside the try of insert_article
         [rows |-> rs, seq |-> s, ret |-> Raised]
    ELSE IF fault = "commit"
    THEN \* commit raises on leaving the with block, whether the statement went
         \* through or the except clause returned None: rollback, re-raise
         [rows |-> rs, seq |-> s, ret |-> Raised]
    ELSE IF fault = "execute" \/ ViolatesConstraint(r)
    THEN \* except sqlite3.Error: return None; the with block then commits nothing
         [rows |-> rs, seq |-> s, ret |-> None]
    ELSE LET up == Upsert(rs, s, t, r)
         IN [rows |-> up.rows, seq |-> up.seq, ret |-> Id(up.id)]

\* with self._get_connection() as conn: ... run to its end under the fault: the
\* number of open connections afterwards.  sqlite3.connect adds one unless it
\* raises; the finally clause closes it whether the block or the commit raised.
_get_connection(c, fault) == IF fault = "connect" THEN c ELSE (c + 1) - 1

\* One call of search_by_keyword or get_stats as the caller saw it.
ReadCall(name, arg, fault, ret) ==
    [tag |-> name, arg |-> arg, fault |-> fault, ret |-> ret]

\* What a read raises or returns under the fault: any exception leaves the call
ReadResult(fault, value) == IF fault = "none" THEN value ELSE Raised

\* The orders in which a SELECT ... ORDER BY created_at DESC may deliver the rows
\* of S: latest first, rows of one created_at in any order.
Orderings(S) ==
    {o \in [1..Cardinality(S) -> S] :
        /\ \A i, j \in DOMAIN o : o[i] = o[j] => i = j
        /\ \A i, j \in DOMAIN o : i < j => o[i].created_at >= o[j].created_at}

\* LIMIT limit OFFSET offset on the ordered rows o, for limit, offset >= 0
LimitOffset(o, limit, offset) == SubSeq(o, offset + 1, Min(Len(o), offset + limit))

\* SQLite's LIKE folds the 26 letters of ASCII and no others.
LikeFold(c) == IF c \in 65..90 THEN c + 32 ELSE c

RECURSIVE Like(_, _)
\* text LIKE pat, characters as code points: % (37) stands for any run of
\* characters, _ (95) for any one character, any other character for itself
\* with the case of ASCII letters ignored; there is no ESCAPE clause.
Like(text, pat) ==
    IF pat = <<>> THEN text = <<>>
    ELSE IF Head(pat) = 37
         THEN Like(text, Tail(pat)) \/ (text # <<>> /\ Like(Tail(text), pat))
         ELSE /\ text # <<>>
              /\ Head(pat) = 95 \/ LikeFold(Head(pat)) = LikeFold(Head(text))
              /\ Like(Tail(text), Tail(pat))

\* SELECT * FROM articles WHERE title LIKE '%kw%' OR content LIKE '%kw%'
\* ORDER BY created_at DESC LIMIT limit: the lists the call may return
search_by_keyword(rs, kw, limit) ==
    {LimitOffset(o, limit, 0) :
        o \in Orderings({row \in rs :
               \/ Like(row.title, <<37>> \o kw \o <<37>>)
               \/ Like(row.content, <<37>> \o kw \o <<37>>)})}

\* get_stats whose total counts the source labels instead of the rows
get_stats_counts_labels(rs) ==
    [total_articles |-> Cardinality({row.source : row \in rs}),
     by_source |-> [src \in {row.source : row \in rs} |->
                       Cardinality({row \in rs : row.source = src})]]

\* SELECT COUNT(*), and SELECT source, COUNT(*) ... GROUP BY source
get_stats(rs) ==
    [total_articles |-> Cardinality(rs),
     by_source |-> [src \in {row.source : row \in rs} |->
                       Cardinality({row \in rs : row.source = src})]]

\* get_articles with OFFSET left out of the SELECT
get_articles_no_offset(rs, src, limit, offset) ==
    {LimitOffset(o, limit, 0) :
        o \in Orderings({row \in rs : src = "" \/ row.source = src})}

\* get_articles(source=src, limit=limit, offset=offset): the sequences of rows
\* the SELECT may deliver ("if source" is false for the empty string and for
\* None, and then no WHERE clause is used)
get_articles(rs, src, limit, offset) ==
    {LimitOffset(o, limit, offset) :
        o \in Orderings({row \in rs : src = "" \/ row.source = src})}

\* No get_articles generator is alive.
NoStream == [tag |-> "nostream"]

\* The generator of get_articles(source, limit, offset) suspended at its yield,
\* inside the with block: the rows yielded so far, the rows still to come, and
\* whether the consumer is iterating or has stopped.
Stream(query, got, left, state) ==
    [tag |-> "stream", query |-> query, got |-> got, left |-> left, state |-> state]

\* DELETE FROM articles WHERE fetched_at < datetime('now', '-days days')
delete_old_articles(rs, t, days) == {row \in rs : ~(row.fetched_at.iso < t - days)}

-----------------------------------------------------------------------------
(* CrawlerPipeline.article_to_record *)

\* article_to_record with the title's cap applied to the content as well
article_to_record_one_cap(article, src) ==
    [title |-> Prefix(article.title, TitleCap),
     url |-> article.url,
     content |-> Prefix(article.content, TitleCap),
     source |-> src,
     fetched_at |-> IsoFormat(article.fetched_at)]

article_to_record(article, src) ==
    [title |-> Prefix(article.title, TitleCap),
     url |-> article.url,
     content |-> Prefix(article.content, ContentCap),
     source |-> src,
     fetched_at |-> IsoFormat(article.fetched_at)]

-----------------------------------------------------------------------------
(* AsyncCrawler *)

Pending == [tag |-> "pending"]

Tasks == DOMAIN urls

Idle == phase \in {"idle", "closed", "returned", "raised", "rejected"}

\* The values of max_concurrent a caller may pass.
Concurrencies == -1..MaxConcurrent

\* asyncio.Semaphore(value) raises ValueError for a negative value, and for no other
SemaphoreRejects(k) == k < 0

\* len(html)
BodyLen(b) == Len(b.title) + Len(b.content) + b.pad

\* CapBody with the body left whole
CapBodyUncapped(b) == b

\* if len(html) > 1_000_000: html = html[:1_000_000]
\* (the cut takes the end of the text: the trailing characters first, then the
\* end of the content, then the end of the title)
CapBody(b) ==
    IF BodyLen(b) <= BodyCap THEN b
    ELSE LET title == Prefix(b.title, BodyCap)
             content == Prefix(b.content, BodyCap - Len(title))
         IN [title |-> title, content |-> content,
             pad |-> BodyCap - Len(title) - Len(content)]

\* _extract_title / _extract_content on a parsed page
_extract_title(page) == Prefix(page.title, ExtractTitleCap)
_extract_content(page) == Prefix(page.content, ExtractContentCap)

\* AsyncCrawler(max_concurrent=k), __aenter__, and the first lines of
\* fetch_many(us): one fetch_one coroutine per position, none started yet.
StartCrawler(us, k, rs) ==
    /\ urls' = us
    /\ resp' = rs
    /\ capacity' = k
    /\ semaphore' = k
    /\ cstats' = [success |-> 0, failed |-> 0]
    /\ session' = TRUE
    /\ pc' = [i \in DOMAIN us |-> "wait"]
    /\ results' = [i \in DOMAIN us |-> Pending]

\* A test or script: async with AsyncCrawler(...) as crawler: await crawler.fetch_many(us)
\* (one batch per crawler, as in test_AsyncCrawler.py)
FetchMany(us, k, rs) ==
    /\ phase = "idle"
    /\ ~SemaphoreRejects(k)
    /\ StartCrawler(us, k, rs)
    /\ phase' = "gather"
    /\ caller' = "direct"
    /\ articles' = <<>>
    /\ UNCHANGED <<rows, seq, calls, now, conns, stream, ops, source, stats, idx, html, soup, art, rec, fs, analyzer, scanned, report, wrapper>>

\* crawler = AsyncCrawler(max_concurrent=k); await crawler.fetch_many(us) without
\* "async with": __aenter__ never ran and self.session is None
FetchManyBare(us, k, rs) ==
    /\ phase = "idle"
    /\ ~SemaphoreRejects(k)
    /\ urls' = us
    /\ resp' = rs
    /\ capacity' = k
    /\ semaphore' = k
    /\ cstats' = [success |-> 0, failed |-> 0]
    /\ session' = FALSE
    /\ pc' = [i \in DOMAIN us |-> "wait"]
    /\ results' = [i \in DOMAIN us |-> Pending]
    /\ phase' = "gather"
    /\ caller' = "bare"
    /\ articles' = <<>>
    /\ UNCHANGED <<rows, seq, calls, now, conns, stream, ops, source, stats, idx, html, soup, art, rec, fs, analyzer, scanned, report, wrapper>>

\* AsyncCrawler(max_concurrent=k) raises out of __init__: no crawler, no task
ConstructRejected(k) ==
    /\ phase = "idle"
    /\ SemaphoreRejects(k)
    /\ phase' = "rejected"
    /\ UNCHANGED <<rows, seq, calls, now, conns, stream, ops, caller, urls, resp, pc,
                   results, semaphore, capacity, cstats, session, articles, source,
                   stats, idx, html, soup, art, rec, fs, analyzer, scanned, report, wrapper>>

\* MayAcquire with the permit count ignored
MayAcquireUngated(i) ==
    /\ pc[i] = "wait"
    /\ \A j \in Tasks : j < i => pc[j] # "wait"

\* Whether task i is the one the semaphore lets in next: a permit is free and no
\* task queued before it is still waiting (the coroutines reach acquire in list
\* order and asyncio.Semaphore wakes its waiters first come, first served).
MayAcquire(i) ==
    /\ pc[i] = "wait"
    /\ semaphore > 0
    /\ \A j \in Tasks : j < i => pc[j] # "wait"

\* Acquire with the request issued at once, the delay left out
AcquireNoDelay(i) ==
    /\ phase = "gather"
    /\ MayAcquire(i)
    /\ semaphore' = semaphore - 1
    /\ pc' = [pc EXCEPT ![i] = "request"]
    /\ UNCHANGED <<rows, seq, calls, now, conns, stream, ops, phase, caller, urls, resp,
                   results, capacity, cstats, session, articles, source, stats, idx,
                   html, soup, art, rec, fs, analyzer, scanned, report, wrapper>>

\* async with self.semaphore: (entry)
Acquire(i) ==
    /\ phase = "gather"
    /\ MayAcquire(i)
    /\ semaphore' = semaphore - 1
    /\ pc' = [pc EXCEPT ![i] = "sleep"]
    /\ UNCHANGED <<rows, seq, calls, now, conns, stream, ops, phase, caller, urls, resp, results,
                   capacity, cstats, session, articles, source, stats, idx, html, soup, art, rec, fs, analyzer, scanned, report, wrapper>>

\* Finish with the permit released only when the coroutine returns a value
FinishLeaksOnException(i, r) ==
    /\ results' = [results EXCEPT ![i] = r]
    /\ pc' = [pc EXCEPT ![i] = "done"]
    /\ semaphore' = IF r = Raised THEN semaphore ELSE semaphore + 1

\* Finish with the permit kept when the coroutine returns None
FinishLeaksOnNone(i, r) ==
    /\ results' = [results EXCEPT ![i] = r]
    /\ pc' = [pc EXCEPT ![i] = "done"]
    /\ semaphore' = IF r = None THEN semaphore ELSE semaphore + 1

\* The coroutine of task i ends with result r: the async with block releases the permit.
Finish(i, r) ==
    /\ results' = [results EXCEPT ![i] = r]
    /\ pc' = [pc EXCEPT ![i] = "done"]
    /\ semaphore' = semaphore + 1

\* await asyncio.sleep(self.delay) returns, or raises and the exception leaves fetch_one
Sleep(i) ==
    /\ phase = "gather"
    /\ pc[i] = "sleep"
    /\ IF resp[i].kind = "raise"
       THEN Finish(i, Raised) /\ UNCHANGED cstats
       ELSE /\ pc' = [pc EXCEPT ![i] = "request"]
            /\ UNCHANGED <<results, semaphore, cstats, fs, analyzer, scanned, report, wrapper>>
    /\ UNCHANGED <<rows, seq, calls, now, conns, stream, ops, phase, caller, urls, resp,
                   capacity, session, articles, source, stats, idx, html, soup, art, rec, fs, analyzer, scanned, report, wrapper>>

\* ExceptResult with only the timeout caught
ExceptResultTimeoutOnly(kind) == IF kind = "timeout" THEN None ELSE Raised

\* What fetch_one ends with when its try block raises: both except clauses
\* (asyncio.TimeoutError, Exception) return None
ExceptResult(kind) == None

\* NonOkResult as the no-outcome signal
NonOkResultNone(u, t, status) == None

\* What fetch_one returns for a response whose status is not 200
NonOkResult(u, t, status) == Article(<<>>, u, <<>>, t, status)

\* async with self.session.get(url) as response: the request ends
\* (with self.session None the attribute access raises inside the try block)
Request(i) ==
    /\ phase = "gather"
    /\ pc[i] = "request"
    /\ CASE ~session ->
              /\ cstats' = [cstats EXCEPT !.failed = @ + 1]
              /\ Finish(i, ExceptResult("error"))
         [] resp[i].kind = "ok" ->
              \* status 200: goes on to await response.text()
              /\ pc' = [pc EXCEPT ![i] = "read"]
              /\ UNCHANGED <<results, semaphore, cstats, fs, analyzer, scanned, report, wrapper>>
         [] resp[i].kind = "http" ->
              /\ cstats' = [cstats EXCEPT !.failed = @ + 1]
              /\ Finish(i, NonOkResult(urls[i], now, resp[i].status))
         [] OTHER ->
              \* except asyncio.TimeoutError / except Exception
              /\ cstats' = [cstats EXCEPT !.failed = @ + 1]
              /\ Finish(i, ExceptResult(resp[i].kind))
    /\ UNCHANGED <<rows, seq, calls, now, conns, stream, ops, phase, caller, urls, resp,
                   capacity, session, articles, source, stats, idx, html, soup, art, rec, fs, analyzer, scanned, report, wrapper>>

\* html = await response.text() returns; parse, extract, count, return the Article
Read(i) ==
    /\ phase = "gather"
    /\ pc[i] = "read"
    /\ cstats' = [cstats EXCEPT !.success = @ + 1]
    /\ LET parsed == CapBody(resp[i].page)
       IN Finish(i, Article(_extract_title(parsed), urls[i],
                            _extract_content(parsed), now, 200))
    /\ UNCHANGED <<rows, seq, calls, now, conns, stream, ops, phase, caller, urls, resp,
                   capacity, session, articles, source, stats, idx, html, soup, art, rec, fs, analyzer, scanned, report, wrapper>>

\* GatherDone as a wait for the first task only
GatherDoneFirst == \E i \in Tasks : pc[i] = "done"

\* GatherDone as a wait that also ends at the first failed task
GatherDoneOnFailure ==
    \/ \A i \in Tasks : pc[i] = "done"
    \/ \E i \in Tasks : pc[i] = "done" /\ results[i] \in {None, Raised}

\* asyncio.gather(*tasks, return_exceptions=True) is done when every task is
GatherDone == \A i \in Tasks : pc[i] = "done"

\* FilterResults without the test of the status
FilterResultsAnyArticle(res) == SelectSeqBy(res, {r \in Range(res) : IsArticle(r)})

\* the filter loop of fetch_many over gather's results
FilterResults(res) ==
    SelectSeqBy(res, {r \in Range(res) : IsArticle(r) /\ r.status = 200})

\* GatherRaises as with return_exceptions left at its default
GatherRaisesUncaptured(res) == \E i \in DOMAIN res : res[i] = Raised

\* Whether gather re-raises a task's exception into fetch_many: with
\* return_exceptions=True an exception is a result like any other.
GatherRaises(res) == FALSE

\* __aexit__ that leaves the session as it is
AexitLeavesOpen(sess) == sess

\* Whether a session is open after __aexit__: an open session is closed
__aexit__(sess) == FALSE

\* fetch_many returns to a direct caller; __aexit__ closes the session
FetchManyReturn ==
    /\ phase = "gather"
    /\ caller \in {"direct", "bare"}
    /\ GatherDone
    /\ articles' = IF GatherRaises(results) THEN <<>> ELSE FilterResults(results)
    /\ session' = __aexit__(session)
    /\ phase' = IF GatherRaises(results) THEN "raised" ELSE "closed"
    /\ UNCHANGED <<rows, seq, calls, now, conns, stream, ops, caller, urls, resp, pc, results,
                   semaphore, capacity, cstats, source, stats, idx, html, soup, art, rec, fs, analyzer, scanned, report, wrapper>>

\* A text of n characters, no two neighbours alike
Str(n, seed) == [i \in 1..n |-> 1 + ((i + seed) % 3)]

LengthsAround(cap) == {0, 1, cap - 1, cap} \cup {cap + d : d \in 1..MaxOver}

\* Articles handed to the mapper: title and content around their caps, urls up to
\* longer than either cap.
MapperArticles ==
    {Article(Str(tl, seed), Str(ul, seed + 1), Str(cl, seed + 2), t, 200) :
        tl \in LengthsAround(TitleCap), ul \in {1, TitleCap + 1, ContentCap + 1},
        cl \in LengthsAround(ContentCap), seed \in {0, 1}, t \in {0}}

\* record = self.article_to_record(article, source)
ArticleToRecord(src) ==
    /\ phase = "idle"
    /\ rec' = article_to_record(art, src)
    /\ UNCHANGED <<rows, seq, calls, now, conns, stream, ops, phase, caller, urls, resp, pc, results,
                   semaphore, capacity, cstats, session, articles, source, stats, idx,
                   html, soup, art, fs, analyzer, scanned, report, wrapper>>

-----------------------------------------------------------------------------
(* CrawlerPipeline.crawl_and_store *)

\* crawl_and_store is left (by return or by an exception): its locals, the crawler
\* among them, are gone; the stats dict is what the caller holds.
LeaveCrawlAndStore ==
    /\ urls' = <<>>
    /\ resp' = <<>>
    /\ pc' = <<>>
    /\ results' = <<>>
    /\ semaphore' = 1
    /\ capacity' = 1
    /\ cstats' = [success |-> 0, failed |-> 0]
    /\ articles' = <<>>
    /\ idx' = 0

\* crawl_and_store(us, src, max_concurrent=k): stats initialised, crawler entered,
\* fetch_many called
CrawlAndStore(us, src, k, rs) ==
    /\ Idle
    /\ ops < MaxOps
    /\ ~SemaphoreRejects(k)
    /\ ops' = ops + 1
    /\ StartCrawler(us, k, rs)
    /\ phase' = "gather"
    /\ caller' = "pipeline"
    /\ source' = src
    /\ stats' = [total |-> Len(us), success |-> 0, failed |-> 0, stored |-> 0]
    /\ articles' = <<>>
    /\ idx' = 0
    /\ calls' = <<>>
    /\ UNCHANGED <<rows, seq, now, conns, stream, html, soup, art, rec, fs, analyzer, scanned, report, wrapper>>

\* crawl_and_store(us, src, max_concurrent=k) when AsyncCrawler(max_concurrent=k)
\* raises: the exception leaves crawl_and_store before fetch_many is called
CrawlAndStoreRejected(k) ==
    /\ Idle
    /\ ops < MaxOps
    /\ SemaphoreRejects(k)
    /\ ops' = ops + 1
    /\ phase' = "rejected"
    /\ caller' = "pipeline"
    /\ calls' = <<>>
    /\ session' = FALSE
    /\ LeaveCrawlAndStore
    /\ UNCHANGED <<rows, seq, now, conns, stream, source, stats, html, soup, art, rec, fs, analyzer, scanned, report, wrapper>>

\* stats["success"] = len([a for a in articles if a and a.status == 200])
CountSuccess(as) == Len(SelectSeqBy(as, {a \in Range(as) : IsArticle(a) /\ a.status = 200}))

\* CountFailed read from the crawler's own counter instead
CountFailedFromCrawler(total, success) == cstats.failed

\* stats["failed"] = stats["total"] - stats["success"]
CountFailed(total, success) == total - success

\* fetch_many returns to crawl_and_store, the async with block closes the session,
\* success and failed are counted
Fetched ==
    /\ phase = "gather"
    /\ caller = "pipeline"
    /\ GatherDone
    /\ session' = __aexit__(session)
    /\ IF GatherRaises(results)
       THEN /\ phase' = "raised"
            /\ LeaveCrawlAndStore
            /\ UNCHANGED stats
       ELSE LET as == FilterResults(results)
                success == CountSuccess(as)
            IN /\ articles' = as
               /\ stats' = [stats EXCEPT !.success = success,
                                         !.failed = CountFailed(stats.total, success)]
               /\ phase' = "store"
               /\ UNCHANGED <<urls, resp, pc, results, semaphore, capacity, cstats, idx, fs, analyzer, scanned, report, wrapper>>
    /\ UNCHANGED <<rows, seq, calls, now, conns, stream, ops, caller, source, html, soup, art, rec, fs, analyzer, scanned, report, wrapper>>

\* if article and article.status == 200:
Storable(article) == IsArticle(article) /\ article.status = 200

\* if article_id: (None and 0 are false)
Truthy(ret) == ret.tag = "id" /\ ret.id # 0

\* NextIndex with an article whose write returned None taken up again
NextIndexRetry(i, ret) == IF ret = None THEN i ELSE i + 1

\* Where "for article in articles" stands after an iteration whose
\* insert_article call returned ret: at the next article, whatever ret is
NextIndex(i, ret) == i + 1

\* one iteration of "for article in articles" under the storage fault f
Store(f) ==
    /\ phase = "store"
    /\ idx < Len(articles)
    /\ LET article == articles[idx + 1]
           record == article_to_record(article, source)
           out == insert_article(rows, seq, now, record, f)
       IN IF Storable(article)
          THEN /\ rows' = out.rows
               /\ seq' = out.seq
               /\ calls' = Append(calls, InsertCall(record, f, RowOf(rows, record.url),
                                                    out.ret))
               /\ conns' = _get_connection(conns, f)
               /\ IF out.ret = Raised
                  THEN \* nothing in crawl_and_store catches it
                       /\ phase' = "raised"
                       /\ LeaveCrawlAndStore
                       /\ UNCHANGED stats
                  ELSE /\ stats' = IF Truthy(out.ret)
                                   THEN [stats EXCEPT !.stored = @ + 1] ELSE stats
                       /\ idx' = NextIndex(idx, out.ret)
                       /\ phase' = phase
                       /\ UNCHANGED <<urls, resp, pc, results, semaphore, capacity,
                                      cstats, articles, fs, analyzer, scanned, report, wrapper>>
          ELSE /\ f = "none"
               /\ idx' = idx + 1
               /\ UNCHANGED <<rows, seq, calls, conns, phase, stats, urls, resp, pc,
                              results, semaphore, capacity, cstats, articles, fs, analyzer, scanned, report, wrapper>>
    /\ UNCHANGED <<now, stream, ops, caller, session, source, html, soup, art, rec, fs, analyzer, scanned, report, wrapper>>

\* return stats
Return ==
    /\ phase = "store"
    /\ idx = Len(articles)
    /\ phase' = "returned"
    /\ LeaveCrawlAndStore
    /\ UNCHANGED <<rows, seq, calls, now, conns, stream, ops, caller, session, source, stats,
                   html, soup, art, rec, fs, analyzer, scanned, report, wrapper>>

-----------------------------------------------------------------------------
(* Calls made on the store from outside the pipeline, and the clock *)

\* db.insert_article(r)
InsertArticle(r, f) ==
    /\ Idle
    /\ ops < MaxOps
    /\ ops' = ops + 1
    /\ LET out == insert_article(rows, seq, now, r, f)
       IN /\ rows' = out.rows
          /\ seq' = out.seq
          /\ calls' = <<InsertCall(r, f, RowOf(rows, r.url), out.ret)>>
    /\ conns' = _get_connection(conns, f)
    /\ phase' = "idle"
    /\ UNCHANGED <<now, stream, caller, urls, resp, pc, results, semaphore, capacity, cstats,
                   session, articles, source, stats, idx, html, soup, art, rec, fs, analyzer, scanned, report, wrapper>>

\* db.delete_old_articles(days)
DeleteOldArticles(days) ==
    /\ Idle
    /\ ops < MaxOps
    /\ ops' = ops + 1
    /\ rows' = delete_old_articles(rows, now, days)
    /\ calls' = <<DeleteCall(days, Cardinality(rows) - Cardinality(rows'))>>
    /\ conns' = _get_connection(conns, "none")
    /\ phase' = "idle"
    /\ UNCHANGED <<seq, now, stream, caller, urls, resp, pc, results, semaphore,
                   capacity, cstats, session, articles, source, stats, idx, html, soup, art, rec, fs, analyzer, scanned, report, wrapper>>

\* db.search_by_keyword(kw, limit)
SearchByKeyword(kw, limit, f) ==
    /\ Idle
    /\ ops < MaxOps
    /\ ops' = ops + 1
    /\ \E out \in search_by_keyword(rows, kw, limit) :
         calls' = <<ReadCall("search_by_keyword", [keyword |-> kw, limit |-> limit], f,
                             ReadResult(f, out))>>
    /\ conns' = _get_connection(conns, f)
    /\ phase' = "idle"
    /\ UNCHANGED <<rows, seq, now, stream, caller, urls, resp, pc, results, semaphore,
                   capacity, cstats, session, articles, source, stats, idx, html, soup, art, rec, fs, analyzer, scanned, report, wrapper>>

\* db.get_stats()
GetStats(f) ==
    /\ Idle
    /\ ops < MaxOps
    /\ ops' = ops + 1
    /\ calls' = <<ReadCall("get_stats", <<>>, f, ReadResult(f, get_stats(rows)))>>
    /\ conns' = _get_connection(conns, f)
    /\ phase' = "idle"
    /\ UNCHANGED <<rows, seq, now, stream, caller, urls, resp, pc, results, semaphore,
                   capacity, cstats, session, articles, source, stats, idx, html, soup, art, rec, fs, analyzer, scanned, report, wrapper>>

\* it = db.get_articles(source=src, limit=limit, offset=offset); next(it): the
\* generator body runs up to its first yield, or to its end when the SELECT
\* yields no row or something raises
GetArticles(src, limit, offset, f) ==
    /\ Idle
    /\ ops < MaxOps
    /\ stream = NoStream
    /\ ops' = ops + 1
    /\ \E out \in get_articles(rows, src, limit, offset) :
         IF f = "none" /\ out # <<>>
         THEN /\ conns' = conns + 1
              /\ stream' = Stream([source |-> src, limit |-> limit, offset |-> offset],
                                  <<Head(out)>>, Tail(out), "iterating")
         ELSE \* StopIteration or an exception: the with block is left
              /\ conns' = _get_connection(conns, f)
              /\ stream' = NoStream
    /\ phase' = "idle"
    /\ UNCHANGED <<rows, seq, now, calls, caller, urls, resp, pc, results, semaphore,
                   capacity, cstats, session, articles, source, stats, idx, html, soup, art, rec, fs, analyzer, scanned, report, wrapper>>

\* next(it) on the suspended generator: the next row, or the end of the cursor,
\* where the with block is left (commit, close) and StopIteration raised
GetArticlesNext ==
    /\ stream # NoStream
    /\ stream.state = "iterating"
    /\ IF stream.left # <<>>
       THEN /\ stream' = Stream(stream.query, Append(stream.got, Head(stream.left)),
                                Tail(stream.left), "iterating")
            /\ UNCHANGED conns
       ELSE /\ stream' = NoStream
            /\ conns' = conns - 1
    /\ UNCHANGED <<rows, seq, now, calls, ops, phase, caller, urls, resp, pc, results,
                   semaphore, capacity, cstats, session, articles, source, stats, idx,
                   html, soup, art, rec, fs, analyzer, scanned, report, wrapper>>

\* The consumer stops iterating (it has what it wanted) and keeps the iterator:
\* the generator stays suspended inside the with block
GetArticlesStop ==
    /\ stream # NoStream
    /\ stream.state = "iterating"
    /\ stream' = Stream(stream.query, stream.got, stream.left, "stopped")
    /\ UNCHANGED <<rows, seq, now, calls, ops, phase, caller, urls, resp, pc, results,
                   semaphore, capacity, cstats, session, articles, source, stats, idx,
                   html, soup, art, rec, conns, fs, analyzer, scanned, report, wrapper>>

\* The generator is closed (it.close(), or the garbage collector finalises it):
\* GeneratorExit is thrown in at the yield and the finally clause closes the
\* connection
GetArticlesClose ==
    /\ stream # NoStream
    /\ stream' = NoStream
    /\ conns' = conns - 1
    /\ UNCHANGED <<rows, seq, now, calls, ops, phase, caller, urls, resp, pc, results,
                   semaphore, capacity, cstats, session, articles, source, stats, idx,
                   html, soup, art, rec, fs, analyzer, scanned, report, wrapper>>

\* The clock advances between top-level calls.
Tick ==
    /\ Idle
    /\ now < MaxNow
    /\ now' = now + 1
    /\ UNCHANGED <<conns, stream, rows, seq, calls, ops, phase, caller, urls, resp, pc, results,
                   semaphore, capacity, cstats, session, articles, source, stats, idx,
                   html, soup, art, rec, fs, analyzer, scanned, report, wrapper>>

-----------------------------------------------------------------------------
(* Specifications *)

NoBody == [tag |-> "nobody"]
NoArticle == Article(<<>>, "u1", <<>>, 0, 0)
NoRecord == [tag |-> "norecord"]

(* CodeAnalyzer (day 1) *)

\* Names and patterns are texts, character by character: 46 is the dot, 42 the
\* star, 47 the slash.
StartsWithDot(part) == part # <<>> /\ Head(part) = 46

EndsWith(name, suffix) ==
    /\ Len(name) >= Len(suffix)
    /\ SubSeq(name, Len(name) - Len(suffix) + 1, Len(name)) = suffix

\* fnmatch(name, pattern) for a pattern made of a star and a literal tail
Matches(name, pattern) == Head(pattern) = 42 /\ EndsWith(name, Tail(pattern))

\* An entry of the tree: its path below the root (directory names, then its own
\* name), whether it is a regular file, its lines, bytes and day of last
\* modification, and whether read_text(encoding='utf-8') succeeds on it.
Entry(path, kind, lines, size, mtime, readable) ==
    [path |-> path, kind |-> kind, lines |-> lines, size |-> size, mtime |-> mtime,
     readable |-> readable]

\* x.py for a one-letter stem x
PyName(c) == <<c, 46, 112, 121>>

\* The day datetime.now() falls on.
Today == 9

\* Lines, bytes and day of last modification of the files that vary.
Attrs == {<<1, 1024, 9>>, <<2, 2048, 2>>, <<2, 2048, 1>>}

\* a.py, d/b.py and d/c.py with any attributes; .g/h.py in a hidden directory;
\* the hidden file .e.py; n.md; a directory named p.py; x.py that is not UTF-8.
Entries ==
    {Entry(p, "file", a[1], a[2], a[3], TRUE) :
        p \in {<<PyName(97)>>, <<<<100>>, PyName(98)>>, <<<<100>>, PyName(99)>>},
        a \in Attrs}
    \cup {Entry(<<<<46, 103>>, PyName(104)>>, "file", 1, 1024, 9, TRUE),
          Entry(<<<<46, 101, 46, 112, 121>>>>, "file", 1, 1024, 9, TRUE),
          Entry(<<<<110, 46, 109, 100>>>>, "file", 1, 1024, 9, TRUE),
          Entry(<<PyName(112)>>, "dir", 0, 0, 9, TRUE),
          Entry(<<PyName(120)>>, "file", 1, 1024, 9, FALSE)}

Trees ==
    {t \in SUBSET Entries :
        /\ Cardinality(t) <= MaxEntries
        /\ \A e1, e2 \in t : e1.path = e2.path => e1 = e2}

\* Where the analyzer's root lies (Path(root).parts): /w, /.h/w and ..
Roots == {<<<<47>>, <<119>>>>, <<<<47>>, <<46, 104>>, <<119>>>>, <<<<46, 46>>>>}

Patterns == {<<42, 46, 112, 121>>, <<42, 46, 109, 100>>}

NoAnalyzer == [tag |-> "noanalyzer"]

NoScan == [tag |-> "noscan"]

NoReport == [tag |-> "noreport"]

\* CodeAnalyzer(root)
CodeAnalyzer(root) ==
    [tag |-> "analyzer", root |-> root, stats |-> [total_files |-> 0, total_lines |-> 0]]

\* list(self.root.rglob(pattern)): the entries below the root whose own name
\* matches, files and directories alike, in the order the directories list them
rglob(tree, pattern) ==
    LET S == {e \in tree : Matches(e.path[Len(e.path)], pattern)}
    IN {o \in [1..Cardinality(S) -> S] : \A i, j \in DOMAIN o : o[i] = o[j] => i = j}

\* any(part.startswith('.') for part in file_path.parts if part not in ('.', '..'))
HasHiddenPart(parts) ==
    \E i \in DOMAIN parts :
        StartsWithDot(parts[i]) /\ parts[i] \notin {<<46>>, <<46, 46>>}

CodeFile(root, e) ==
    [path |-> root \o e.path, lines |-> e.lines, last_modified |-> e.mtime]

RECURSIVE scan(_, _)
\* The CodeFiles the generator of scan yields for the paths all_files, consumed
\* to its end: entries that are no regular file, entries with a hidden part
\* and files that cannot be read are passed over.
scan(root, all_files) ==
    IF all_files = <<>> THEN <<>>
    ELSE LET e == Head(all_files)
             rest == scan(root, Tail(all_files))
         IN IF e.kind # "file" THEN rest
            ELSE IF HasHiddenPart(root \o e.path) THEN rest
            ELSE IF ~e.readable THEN rest
            ELSE <<CodeFile(root, e)>> \o rest

RECURSIVE SumLines(_)
SumLines(files) ==
    IF files = <<>> THEN 0 ELSE Head(files).lines + SumLines(Tail(files))

\* self.stats after scan yielded files: both counters grow by what was yielded
StatsAfter(st, files) ==
    [total_files |-> st.total_files + Len(files),
     total_lines |-> st.total_lines + SumLines(files)]

\* CodeFile.size_kb: the size of the file the path names, read when asked for
size_kb(tree, root, f) ==
    (CHOOSE e \in tree : root \o e.path = f.path).size \div 1024

\* CodeFile.is_recent, times in days
is_recent(f) == Today - f.last_modified <= RecentDays

\* The list handed over as it is
Unsorted(s, key) == s

RECURSIVE SortedDesc(_, _)
\* sorted(s, key=..., reverse=True): greatest key first, elements of one key in
\* the order they had in s
SortedDesc(s, key) ==
    IF s = <<>> THEN <<>>
    ELSE LET init == SortedDesc(SubSeq(s, 1, Len(s) - 1), key)
             x == s[Len(s)]
             k == Cardinality({i \in DOMAIN init : key[init[i]] >= key[x]})
         IN SubSeq(init, 1, k) \o <<x>> \o SubSeq(init, k + 1, Len(init))

\* s[:n] for n >= 0
Take(s, n) == SubSeq(s, 1, Min(n, Len(s)))

\* The dict generate_report(top_n) returns for the scanned files and the stats
\* as the scan left them.
generate_report(tree, root, st, files, top_n) ==
    LET sizes == [f \in Range(files) |-> size_kb(tree, root, f)]
        times == [f \in Range(files) |-> f.last_modified]
        recent == SelectSeq(files, is_recent)
    IN [tag |-> "report",
        top_n |-> top_n,
        summary |-> st,
        largest_files |->
            [i \in DOMAIN Take(SortedDesc(files, sizes), top_n) |->
                LET f == Take(SortedDesc(files, sizes), top_n)[i]
                IN [path |-> f.path, lines |-> f.lines, size_kb |-> sizes[f]]],
        recent_files |->
            [i \in DOMAIN Take(SortedDesc(recent, times), top_n) |->
                Take(SortedDesc(recent, times), top_n)[i].path]]

\* list(analyzer.scan(pattern))
Scan(pattern) ==
    /\ analyzer # NoAnalyzer
    /\ ops < MaxOps
    /\ ops' = ops + 1
    /\ \E all_files \in rglob(fs, pattern) :
         LET files == scan(analyzer.root, all_files)
         IN /\ scanned' = [call |-> "scan", pattern |-> pattern, files |-> files]
            /\ analyzer' = [analyzer EXCEPT !.stats = StatsAfter(@, files)]
    /\ UNCHANGED <<rows, seq, now, phase, caller, urls, resp, pc, results, semaphore,
                   capacity, cstats, session, articles, source, stats, idx, calls,
                   art, rec, conns, stream, html, soup, fs, report, wrapper>>

\* analyzer.generate_report(top_n): scan with the default pattern *.py, then the
\* two rankings
GenerateReport(top_n) ==
    /\ analyzer # NoAnalyzer
    /\ ops < MaxOps
    /\ ops' = ops + 1
    /\ \E all_files \in rglob(fs, <<42, 46, 112, 121>>) :
         LET files == scan(analyzer.root, all_files)
             st == StatsAfter(analyzer.stats, files)
         IN /\ scanned' = [call |-> "generate_report", pattern |-> <<42, 46, 112, 121>>,
                            files |-> files]
            /\ analyzer' = [analyzer EXCEPT !.stats = st]
            /\ report' = generate_report(fs, analyzer.root, st, files, top_n)
    /\ UNCHANGED <<rows, seq, now, phase, caller, urls, resp, pc, results, semaphore,
                   capacity, cstats, session, articles, source, stats, idx, calls,
                   art, rec, conns, stream, html, soup, fs, wrapper>>

(* retry (day 1) *)

NoWrapper == [tag |-> "nowrapper"]

\* The exception classes the wrapped function may raise.
Classes == {"ValueError", "KeyError"}

\* What one call of the wrapped function does: it returns a value (which may be
\* None) or raises a new exception of some class.
Outcomes ==
    {[kind |-> "return", value |-> v] : v \in {"a", "None"}}
    \cup {[kind |-> "raise", class |-> c] : c \in Classes}

\* wrapper(*args, **kwargs) of retry(max_attempts, delay, exceptions)(func) at
\* its start: the loop is about to draw the first element of
\* range(1, max_attempts + 1).
Wrapper(max_attempts, exceptions) ==
    [tag |-> "wrapper", max_attempts |-> max_attempts, exceptions |-> exceptions,
     attempt |-> 0, pc |-> "for", log |-> <<>>, result |-> [how |-> "running"]]

\* The exception a call of func raises during the given attempt.
Exc(class, attempt) == [class |-> class, attempt |-> attempt]

\* except clause that matches every exception
CaughtAlways(exc, exceptions) == TRUE

\* except exceptions as e: the clause matches (classes taken as unrelated)
Caught(exc, exceptions) == exc.class \in exceptions

\* The test for the last attempt never true
ExhaustedNever(attempt, max_attempts) == FALSE

\* if attempt == max_attempts
Exhausted(attempt, max_attempts) == attempt = max_attempts

\* for attempt in range(1, max_attempts + 1): the next element is drawn, or the
\* range is used up and the statement after the loop, return None, runs
RetryFor ==
    /\ wrapper # NoWrapper
    /\ wrapper.pc = "for"
    /\ IF wrapper.attempt + 1 <= wrapper.max_attempts
       THEN wrapper' = [wrapper EXCEPT !.attempt = @ + 1, !.pc = "try"]
       ELSE wrapper' = [wrapper EXCEPT !.pc = "returned",
                           !.result = [how |-> "return", at |-> "after the loop",
                                       value |-> "None"]]
    /\ UNCHANGED <<rows, seq, now, ops, phase, caller, urls, resp, pc, results,
                   semaphore, capacity, cstats, session, articles, source, stats, idx,
                   calls, art, rec, conns, stream, html, soup, fs, analyzer, scanned,
                   report>>

\* The try statement of one attempt: func is called; its value is returned, or
\* its exception is caught and re-raised on the last attempt, caught and
\* followed by the delay on an earlier one, or not caught at all
RetryTry(out) ==
    /\ wrapper # NoWrapper
    /\ wrapper.pc = "try"
    /\ LET exc == Exc(out.class, wrapper.attempt)
           log == Append(wrapper.log, [event |-> "call", attempt |-> wrapper.attempt,
                                       out |-> out])
       IN IF out.kind = "return"
          THEN wrapper' = [wrapper EXCEPT !.log = log, !.pc = "returned",
                              !.result = [how |-> "return", at |-> "return result",
                                          value |-> out.value]]
          ELSE IF ~Caught(exc, wrapper.exceptions)
          THEN wrapper' = [wrapper EXCEPT !.log = log, !.pc = "raised",
                              !.result = [how |-> "raise", exc |-> exc]]
          ELSE IF Exhausted(wrapper.attempt, wrapper.max_attempts)
          THEN wrapper' = [wrapper EXCEPT !.log = log, !.pc = "raised",
                              !.result = [how |-> "raise", exc |-> exc]]
          ELSE wrapper' = [wrapper EXCEPT !.log = log, !.pc = "sleep"]
    /\ UNCHANGED <<rows, seq, now, ops, phase, caller, urls, resp, pc, results,
                   semaphore, capacity, cstats, session, articles, source, stats, idx,
                   calls, art, rec, conns, stream, html, soup, fs, analyzer, scanned,
                   report>>

\* time.sleep(delay), then back to the head of the loop
RetrySleep ==
    /\ wrapper # NoWrapper
    /\ wrapper.pc = "sleep"
    /\ wrapper' = [wrapper EXCEPT !.log = Append(@, [event |-> "sleep"]), !.pc = "for"]
    /\ UNCHANGED <<rows, seq, now, ops, phase, caller, urls, resp, pc, results,
                   semaphore, capacity, cstats, session, articles, source, stats, idx,
                   calls, art, rec, conns, stream, html, soup, fs, analyzer, scanned,
                   report>>

InitSystem ==
    /\ rows = {}
    /\ seq = 0
    /\ now = 0
    /\ ops = 0
    /\ phase = "idle"
    /\ caller = "direct"
    /\ urls = <<>>
    /\ resp = <<>>
    /\ pc = <<>>
    /\ results = <<>>
    /\ semaphore = 1
    /\ capacity = 1
    /\ cstats = [success |-> 0, failed |-> 0]
    /\ session = FALSE
    /\ articles = <<>>
    /\ source = "httpbin"
    /\ stats = [total |-> 0, success |-> 0, failed |-> 0, stored |-> 0]
    /\ idx = 0
    /\ calls = <<>>
    /\ conns = 0
    /\ stream = NoStream
    /\ fs = {}
    /\ analyzer = NoAnalyzer
    /\ scanned = NoScan
    /\ report = NoReport
    /\ wrapper = NoWrapper

Init ==
    /\ InitSystem
    /\ art = NoArticle
    /\ rec = NoRecord
    /\ html = NoBody
    /\ soup = NoBody

TaskStep == \E i \in Tasks : Acquire(i) \/ Sleep(i) \/ Request(i) \/ Read(i)

\* The pipeline and the store: crawl_and_store runs, direct store calls, the clock.
Next ==
    \/ /\ Idle
       /\ \E n \in 1..MaxPipeUrls : \E us \in [1..n -> Urls] :
            \E rs \in [1..n -> Responses] : \E k \in Concurrencies : \E src \in Sources :
               CrawlAndStore(us, src, k, rs)
    \/ \E k \in Concurrencies : CrawlAndStoreRejected(k)
    \/ TaskStep
    \/ Fetched
    \/ \E f \in Faults : Store(f)
    \/ Return
    \/ /\ Idle
       /\ \E r \in Records : \E f \in Faults : InsertArticle(r, f)
    \/ \E days \in 0..MaxNow : DeleteOldArticles(days)
    \/ Tick

Spec == Init /\ [][Next]_vars

\* The crawler alone: fetch_many called directly, as the crawler's tests do.
NextCrawl ==
    \/ /\ phase = "idle"
       /\ \E n \in 1..MaxUrls : \E us \in [1..n -> Urls] : \E rs \in [1..n -> Responses] :
            \E k \in Concurrencies : FetchMany(us, k, rs) \/ FetchManyBare(us, k, rs)
    \/ \E k \in Concurrencies : ConstructRejected(k)
    \/ TaskStep
    \/ FetchManyReturn

SpecCrawl == Init /\ [][NextCrawl]_vars

\* The event loop runs every coroutine that is ready: a task that may take a
\* permit takes it, a sleep or request or read that has ended is resumed, and
\* fetch_many is resumed once gather is done.
FairCrawl ==
    /\ \A i \in 1..MaxUrls :
         /\ WF_vars(i \in Tasks /\ Acquire(i))
         /\ WF_vars(i \in Tasks /\ Sleep(i))
         /\ WF_vars(i \in Tasks /\ Request(i))
         /\ WF_vars(i \in Tasks /\ Read(i))
    /\ WF_vars(FetchManyReturn)

SpecCrawlFair == SpecCrawl /\ FairCrawl

\* The store alone: calls made on an ArticleDatabase, and the clock.
NextDb ==
    \/ /\ Idle
       /\ \E r \in Records : \E f \in Faults : InsertArticle(r, f)
    \/ \E days \in 0..MaxNow : DeleteOldArticles(days)
    \/ \E kw \in {<<1>>, <<2>>} : \E f \in Faults : SearchByKeyword(kw, 50, f)
    \/ \E f \in Faults : GetStats(f)
    \/ \E src \in Sources \cup {""} : \E limit \in {1, 100} : \E offset \in {0, 1} :
         \E f \in Faults : GetArticles(src, limit, offset, f)
    \/ GetArticlesNext
    \/ GetArticlesStop
    \/ GetArticlesClose
    \/ Tick

SpecDb == Init /\ [][NextDb]_vars

\* The record mapper alone: article_to_record applied to Articles whose texts lie
\* around the caps.
InitRecord ==
    /\ InitSystem
    /\ art \in MapperArticles
    /\ rec = NoRecord
    /\ html = NoBody
    /\ soup = NoBody

NextRecord == \E src \in Sources : ArticleToRecord(src)

SpecRecord == InitRecord /\ [][NextRecord]_vars

\* Bodies handed to the body reader: title and content around the caps of the
\* extraction, the whole text around the body cap.
Bodies ==
    {[title |-> Str(tl, 0), content |-> Str(cl, 1), pad |-> total - tl - cl] :
        tl \in LengthsAround(ExtractTitleCap), cl \in LengthsAround(ExtractContentCap),
        total \in {ExtractTitleCap + ExtractContentCap + MaxOver + MaxOver}
                   \cup (LengthsAround(BodyCap) \ {0, 1})}

\* fetch_one from "html = await response.text()" to "return Article(...)" for a
\* status-200 response with body html
ReadBody ==
    /\ phase = "idle"
    /\ soup = NoBody
    /\ LET parsed == CapBody(html)
       IN /\ soup' = parsed
          /\ art' = Article(_extract_title(parsed), "u1", _extract_content(parsed),
                            now, 200)
    /\ UNCHANGED <<rows, seq, calls, now, conns, stream, ops, phase, caller, urls, resp,
                   pc, results, semaphore, capacity, cstats, session, articles, source,
                   stats, idx, rec, html, fs, analyzer, scanned, report, wrapper>>

\* The body reader alone: the tail of fetch_one applied to bodies whose lengths
\* lie around the caps.
InitRead ==
    /\ InitSystem
    /\ art = NoArticle
    /\ rec = NoRecord
    /\ html \in Bodies
    /\ soup = NoBody

NextRead == ReadBody

SpecRead == InitRead /\ [][NextRead]_vars

\* The queries alone: get_articles, search_by_keyword and get_stats on stores of up to
\* MaxRows rows whose titles are a pair of letters or an underscore.
QueryTexts == {<<97, 98>>, <<95>>}

QueryUrls == <<"u1", "u2", "u3">>

QueryStores ==
    UNION {{ {[id |-> i, title |-> t[i], url |-> QueryUrls[i], content |-> <<120>>,
               source |-> s[i], category |-> "NULL", fetched_at |-> IsoFormat(c[i]),
               created_at |-> c[i]] : i \in 1..n} :
              t \in [1..n -> QueryTexts], s \in [1..n -> Sources],
              c \in {f \in [1..n -> Times] : \A i, j \in 1..n : i < j => f[i] <= f[j]}} :
           n \in 0..MaxRows}

\* The keywords searched for: B, underscore, percent.
Keywords == {<<66>>, <<95>>, <<37>>}

InitQuery ==
    /\ rows \in QueryStores
    /\ seq = Cardinality(rows)
    /\ now = MaxNow
    /\ ops = 0
    /\ phase = "idle"
    /\ caller = "direct"
    /\ urls = <<>>
    /\ resp = <<>>
    /\ pc = <<>>
    /\ results = <<>>
    /\ semaphore = 1
    /\ capacity = 1
    /\ cstats = [success |-> 0, failed |-> 0]
    /\ session = FALSE
    /\ articles = <<>>
    /\ source = "httpbin"
    /\ stats = [total |-> 0, success |-> 0, failed |-> 0, stored |-> 0]
    /\ idx = 0
    /\ calls = <<>>
    /\ conns = 0
    /\ stream = NoStream
    /\ art = NoArticle
    /\ rec = NoRecord
    /\ html = NoBody
    /\ soup = NoBody
    /\ fs = {}
    /\ analyzer = NoAnalyzer
    /\ scanned = NoScan
    /\ report = NoReport
    /\ wrapper = NoWrapper

NextQuery ==
    \/ \E kw \in Keywords : \E limit \in {1, 50} : \E f \in Faults :
         SearchByKeyword(kw, limit, f)
    \/ \E src \in Sources \cup {""} : \E limit \in {1, 100} : \E offset \in {0, 1} :
         \E f \in Faults : GetArticles(src, limit, offset, f)
    \/ GetArticlesNext
    \/ GetArticlesStop
    \/ GetArticlesClose
    \/ \E f \in Faults : GetStats(f)

SpecQuery == InitQuery /\ [][NextQuery]_vars

\* The code analyzer alone: one CodeAnalyzer on a tree of up to MaxEntries
\* entries, its root at any of the three locations.
InitAnalyzer ==
    /\ rows = {}
    /\ seq = 0
    /\ now = 0
    /\ ops = 0
    /\ phase = "idle"
    /\ caller = "direct"
    /\ urls = <<>>
    /\ resp = <<>>
    /\ pc = <<>>
    /\ results = <<>>
    /\ semaphore = 1
    /\ capacity = 1
    /\ cstats = [success |-> 0, failed |-> 0]
    /\ session = FALSE
    /\ articles = <<>>
    /\ source = "httpbin"
    /\ stats = [total |-> 0, success |-> 0, failed |-> 0, stored |-> 0]
    /\ idx = 0
    /\ calls = <<>>
    /\ conns = 0
    /\ stream = NoStream
    /\ art = NoArticle
    /\ rec = NoRecord
    /\ html = NoBody
    /\ soup = NoBody
    /\ fs \in Trees
    /\ \E root \in Roots : analyzer = CodeAnalyzer(root)
    /\ scanned = NoScan
    /\ report = NoReport
    /\ wrapper = NoWrapper

NextAnalyzer ==
    \/ \E pattern \in Patterns : Scan(pattern)
    \/ \E top_n \in 0..MaxTop : GenerateReport(top_n)

SpecAnalyzer == InitAnalyzer /\ [][NextAnalyzer]_vars

\* The retry wrapper alone: one call of a wrapped function, for max_attempts
\* from -1 to MaxAttempts and every tuple of the exception classes.
InitRetry ==
    /\ rows = {}
    /\ seq = 0
    /\ now = 0
    /\ ops = 0
    /\ phase = "idle"
    /\ caller = "direct"
    /\ urls = <<>>
    /\ resp = <<>>
    /\ pc = <<>>
    /\ results = <<>>
    /\ semaphore = 1
    /\ capacity = 1
    /\ cstats = [success |-> 0, failed |-> 0]
    /\ session = FALSE
    /\ articles = <<>>
    /\ source = "httpbin"
    /\ stats = [total |-> 0, success |-> 0, failed |-> 0, stored |-> 0]
    /\ idx = 0
    /\ calls = <<>>
    /\ conns = 0
    /\ stream = NoStream
    /\ art = NoArticle
    /\ rec = NoRecord
    /\ html = NoBody
    /\ soup = NoBody
    /\ fs = {}
    /\ analyzer = NoAnalyzer
    /\ scanned = NoScan
    /\ report = NoReport
    /\ \E max_attempts \in -1..MaxAttempts : \E exceptions \in SUBSET Classes :
         wrapper = Wrapper(max_attempts, exceptions)

NextRetry ==
    \/ RetryFor
    \/ \E out \in Outcomes : RetryTry(out)
    \/ RetrySleep

SpecRetry == InitRetry /\ [][NextRetry]_vars

-----------------------------------------------------------------------------
(* Properties *)

\* Task i has entered "async with self.semaphore" and not yet left it.
Holding(i) == pc[i] \in {"sleep", "request", "read"}

Holders == {i \in Tasks : Holding(i)}

\* C1: at every moment of a fetch_many batch of N >= 1 URLs with gate capacity
\* K >= 1, at most K fetch_one tasks are between acquiring the semaphore and
\* releasing it.
AtMostKHolders == Cardinality(Holders) <= capacity

\* C1 happens: the gate is full while another task waits for a permit.
GateFullWitness ==
    /\ phase = "gather"
    /\ Holders # {}
    /\ Cardinality(Holders) = capacity
    /\ \E i \in Tasks : pc[i] = "wait"

\* What fetch_one ends with when the network answers r to its request for url u,
\* whatever happens to the other requests of the batch (fetched_at left open).
OutcomeAlone(u, r) ==
    CASE r.kind # "raise" /\ caller = "bare" -> None
      [] r.kind = "ok" -> Article(r.page.title, u, r.page.content, 0, 200)
      [] r.kind = "http" -> Article(<<>>, u, <<>>, 0, r.status)
      [] r.kind = "raise" -> Raised
      [] OTHER -> None

SameOutcome(a, b) ==
    IF IsArticle(a) /\ IsArticle(b)
    THEN [a EXCEPT !.fetched_at = 0] = [b EXCEPT !.fetched_at = 0]
    ELSE a.tag = b.tag

\* C2: in fetch_many a failed fetch (timeout, non-200, exception in the task) leaves
\* every other task alone: each task that has ended has the outcome its own
\* answer gives it, a task that has not ended has had no result forced on it,
\* and fetch_many does not raise and returns only with every task ended.
FailureIsolated ==
    /\ \A i \in Tasks :
         IF pc[i] = "done"
         THEN SameOutcome(results[i], OutcomeAlone(urls[i], resp[i]))
         ELSE results[i] = Pending
    /\ caller # "pipeline" => phase # "raised"
    /\ phase = "closed" => \A i \in Tasks : pc[i] = "done"

\* C2 happens: fetch_many has returned from a batch in which one task raised,
\* one timed out and another delivered its Article.
FailureIsolatedWitness ==
    /\ phase = "closed"
    /\ \E i, j, k \in Tasks :
         /\ resp[i].kind = "raise" /\ results[i] = Raised
         /\ resp[j].kind = "timeout" /\ results[j] = None
         /\ resp[k].kind = "ok" /\ IsArticle(results[k]) /\ results[k].status = 200
         /\ articles = <<results[k]>>

\* The latest store call of the current top-level call.
LastCall == calls[Len(calls)]

Accepted(c) == c.tag = "insert_article" /\ c.ret.tag = "id"

RowsOf(rs, u) == {row \in rs : row.url = u}

\* C3: once a write of a url is accepted, by insert_article directly or from
\* crawl_and_store, and also when that url was already stored with another title
\* and content, the store holds exactly one row for the url and the row carries
\* the title and content of that latest write.
UpsertLastWins ==
    (calls # <<>> /\ Accepted(LastCall)) =>
        /\ Cardinality(RowsOf(rows, LastCall.rec.url)) = 1
        /\ \A row \in RowsOf(rows, LastCall.rec.url) :
             row.title = LastCall.rec.title /\ row.content = LastCall.rec.content

\* C3 happens: a second top-level call is a crawl_and_store whose first write
\* lands on a row stored earlier under another title and content.
UpsertLastWinsWitness ==
    /\ ops = 2
    /\ phase = "store"
    /\ Len(calls) = 1
    /\ Accepted(LastCall)
    /\ LastCall.before # NoRow
    /\ LastCall.before.title # LastCall.rec.title
    /\ LastCall.before.content # LastCall.rec.content

\* C4: whatever insert_article, crawl_and_store and delete_old_articles calls have
\* been made, no two rows of the store have the same url.
UrlUnique == \A a, b \in rows : a.url = b.url => a = b

\* C4 happens: crawl_and_store has written both entries of a batch that lists
\* one url twice.
UrlUniqueWitness ==
    /\ phase = "store"
    /\ Len(urls) = 2
    /\ urls[1] = urls[2]
    /\ Len(calls) = 2
    /\ \A k \in 1..2 : Accepted(calls[k])
    /\ Cardinality(rows) = 1

\* C5: the statistics of crawl_and_store satisfy success + failed = total, with total
\* the number of URLs passed in, and stored <= success, up to and at its return.
StatsConsistent ==
    /\ phase = "store" => stats.total = Len(urls)
    /\ phase \in {"store", "returned"} =>
         /\ stats.success + stats.failed = stats.total
         /\ stats.stored <= stats.success

\* C5 happens: crawl_and_store has returned from a batch with a failed fetch and
\* a refused write.
StatsConsistentWitness ==
    /\ phase = "returned"
    /\ stats.failed > 0
    /\ stats.stored < stats.success

\* C6: article_to_record cuts a content longer than 2000 characters to its first
\* 2000 and keeps a shorter one as it is, does the same to the title at 200, and
\* copies the url whole whatever its length.
RecordBounded ==
    rec # NoRecord =>
        /\ Len(art.content) > ContentCap =>
             /\ Len(rec.content) = ContentCap
             /\ \A i \in 1..ContentCap : rec.content[i] = art.content[i]
        /\ Len(art.content) <= ContentCap => rec.content = art.content
        /\ Len(art.title) > TitleCap =>
             /\ Len(rec.title) = TitleCap
             /\ \A i \in 1..TitleCap : rec.title[i] = art.title[i]
        /\ Len(art.title) <= TitleCap => rec.title = art.title
        /\ rec.url = art.url

\* C6 happens: an Article whose title, content and url are all longer than their
\* caps has been mapped.
RecordBoundedWitness ==
    /\ rec # NoRecord
    /\ Len(art.content) > ContentCap
    /\ Len(art.title) > TitleCap
    /\ Len(art.url) > ContentCap

Distinct(us) == \A i, j \in DOMAIN us : us[i] = us[j] => i = j

OkTasks == {i \in Tasks : resp[i].kind = "ok"}

\* The store loop of crawl_and_store is over and stats is about to be returned.
LoopDone == phase = "store" /\ idx = Len(articles)

\* The batch of C7: distinct URLs, each answered with a status (200 or another),
\* and no storage fault during the writes.
ScenarioBatch ==
    /\ Distinct(urls)
    /\ \A i \in Tasks : resp[i].kind \in {"ok", "http"}
    /\ \A k \in DOMAIN calls : calls[k].fault = "none"

\* C7: for a batch of N distinct URLs of which s answer 200 and the others another
\* status, with every write accepted, crawl_and_store ends with success = s,
\* failed = N - s, stored = s, one row for each of the s URLs, and has written
\* nothing for a failed URL.
ScenarioCounts ==
    (LoopDone /\ ScenarioBatch) =>
        /\ stats.success = Cardinality(OkTasks)
        /\ stats.failed = Len(urls) - Cardinality(OkTasks)
        /\ stats.stored = Cardinality(OkTasks)
        /\ \A i \in OkTasks : Cardinality(RowsOf(rows, urls[i])) = 1
        /\ \A i \in Tasks \ OkTasks :
             \A k \in DOMAIN calls : calls[k].rec.url # urls[i]

\* C7 happens: a batch with both a 200 and a non-200 answer has been stored.
ScenarioCountsWitness ==
    /\ LoopDone
    /\ ScenarioBatch
    /\ OkTasks # {}
    /\ Tasks \ OkTasks # {}

\* C8: a storage failure while one record is written does not abort
\* crawl_and_store: the run is not left by an exception, every successful outcome
\* is still handed to the store, and stored counts the writes that succeeded.
StorageFailureIsolated ==
    /\ caller = "pipeline" => phase # "raised"
    /\ phase = "store" =>
         /\ Len(calls) = idx
         /\ stats.stored = Cardinality({k \in DOMAIN calls : Accepted(calls[k])})

\* C9: insert_article returns None on every storage-layer error (of the INSERT, of
\* opening the connection, of the commit) and never raises.
InsertReturnsNoneOnError ==
    \A k \in DOMAIN calls :
        (calls[k].tag = "insert_article" /\ calls[k].fault # "none") =>
            calls[k].ret = None

ReturnsExistingId ==
    (calls # <<>> /\ Accepted(LastCall) /\ LastCall.before # NoRow) =>
        /\ LastCall.ret.id = LastCall.before.id
        /\ \A row \in RowsOf(rows, LastCall.rec.url) : row.id = LastCall.before.id

IdsDistinct == \A a, b \in rows : a.id = b.id => a = b

IdsStable == \A a \in rows : \A b \in rows' : a.url = b.url => a.id = b.id

\* C10: insert_article on a url already stored returns the id of the row that is
\* there, no step of the store changes the id of a url's row, and no two rows
\* share an id.
UpsertKeepsId == [](ReturnsExistingId /\ IdsDistinct) /\ [][IdsStable]_vars

\* C10 happens: an upsert of a stored url has returned the row's id although
\* the id sequence has moved past it.
UpsertKeepsIdWitness ==
    /\ calls # <<>>
    /\ Accepted(LastCall)
    /\ LastCall.before # NoRow
    /\ LastCall.ret.id = LastCall.before.id
    /\ seq > LastCall.ret.id

\* The step is an insert_article call that was accepted for a url already stored.
UpsertStep ==
    /\ calls' # calls \/ ops' # ops
    /\ calls' # <<>>
    /\ Accepted(calls'[Len(calls')])
    /\ calls'[Len(calls')].before # NoRow

UpsertFrameStep ==
    LET c == calls'[Len(calls')]
        old == c.before
    IN /\ old \in rows
       /\ \E new \in rows' :
            /\ new.url = c.rec.url
            /\ new.id = old.id
            /\ new.source = old.source
            /\ new.category = old.category
            /\ new.created_at = old.created_at
       /\ \A row \in rows : row.url # c.rec.url => row \in rows'
       /\ \A row \in rows' : row.url # c.rec.url => row \in rows

\* C11: an insert_article call that collides with a stored url leaves the row's id,
\* source, category and created_at as the first insert set them, and leaves every
\* other row of the store as it was.
UpsertFrame == [][UpsertStep => UpsertFrameStep]_vars

\* C11 happens: with two rows stored by a crawl_and_store run, a later insert_article
\* for one of the urls, under another source label, another title and at a later
\* time, has been accepted, and the row kept its source and created_at.
UpsertFrameWitness ==
    /\ ops = 2
    /\ phase = "idle"
    /\ Len(calls) = 1
    /\ Accepted(LastCall)
    /\ LastCall.before # NoRow
    /\ LastCall.before.source # LastCall.rec.source
    /\ LastCall.before.title # LastCall.rec.title
    /\ LastCall.before.created_at # now
    /\ Cardinality(rows) = 2
    /\ \A row \in RowsOf(rows, LastCall.rec.url) :
         row.source = LastCall.before.source /\ row.created_at # now

\* C12: a max_concurrent <= 0 (0 as well as a negative value) is rejected before
\* any fetch task is started: no batch is ever under way with a gate built for
\* fewer than one permit.
ConcurrencyRejected == phase = "gather" => capacity >= 1

\* The request of task i meets a transport failure: a timeout, another exception
\* while requesting or parsing, or no open session.
TransportFailure(i) ==
    \/ resp[i].kind \in {"timeout", "error"}
    \/ caller = "bare" /\ resp[i].kind # "raise"

\* C13: a fetch_one whose request meets a timeout, any other exception raised while
\* requesting or parsing, or a crawler without an open session, does not raise:
\* it ends with None, and the step in which it does adds one to the crawler's
\* failed counter.
FetchOneAbsorbs ==
    /\ [](\A i \in Tasks : (pc[i] = "done" /\ TransportFailure(i)) => results[i] = None)
    /\ [][\A i \in Tasks :
            (results[i] = Pending /\ i \in DOMAIN results' /\ results'[i] = None) =>
                cstats'.failed = cstats.failed + 1]_vars

\* C13 happens: on a crawler never entered, a batch of three has ended with None
\* three times: for a timeout, for another exception, and for a request that
\* would have been answered 200 had a session been open.
FetchOneAbsorbsWitness ==
    /\ caller = "bare"
    /\ phase = "gather"
    /\ GatherDone
    /\ cstats.failed = 3
    /\ \E i, j, k \in Tasks :
         /\ resp[i].kind = "timeout" /\ results[i] = None
         /\ resp[j].kind = "error" /\ results[j] = None
         /\ resp[k].kind = "ok" /\ results[k] = None

\* C14: an Article that fetch_one produces with a status other than 200 has an
\* empty title and content and the status of the response; a response that is not
\* 200 gives such an Article, not None, and its step adds one to the crawler's
\* failed counter; no Article has status 0.
NonOkArticle ==
    /\ [](\A i \in Tasks : pc[i] = "done" =>
            /\ (IsArticle(results[i]) /\ results[i].status # 200) =>
                  /\ results[i].title = <<>>
                  /\ results[i].content = <<>>
                  /\ resp[i].kind = "http"
                  /\ results[i].status = resp[i].status
            /\ IsArticle(results[i]) => results[i].status # 0
            /\ (resp[i].kind = "http" /\ caller # "bare") =>
                  /\ IsArticle(results[i])
                  /\ results[i].status = resp[i].status)
    /\ [][\A i \in Tasks :
            (resp[i].kind = "http" /\ caller # "bare" /\ pc[i] # "done"
               /\ i \in DOMAIN pc' /\ pc'[i] = "done") =>
                /\ cstats'.failed = cstats.failed + 1
                /\ cstats'.success = cstats.success]_vars

\* C14 happens: fetch_many has returned from a batch in which one response was a
\* 404 and another a 200; the 404 is an Article among the results and is counted
\* as the one failure.
NonOkArticleWitness ==
    /\ phase = "closed"
    /\ caller = "direct"
    /\ cstats.failed = 1
    /\ cstats.success = 1
    /\ \E i, j \in Tasks :
         /\ resp[i].kind = "http" /\ IsArticle(results[i]) /\ results[i].status = 404
         /\ resp[j].kind = "ok"

\* The positions whose fetch ended with a status-200 Article.
OkDone == {i \in Tasks : IsArticle(results[i]) /\ results[i].status = 200}

\* C15: the list fetch_many returns holds exactly the status-200 outcomes, one per
\* list position whose fetch succeeded and in the order of the positions (so a url
\* listed twice can give two Articles), and nothing else: no None, no Article of
\* another status, no exception.
ReturnsOnlyOk ==
    phase = "closed" =>
        /\ Len(articles) = Cardinality(OkDone)
        /\ \A k \in DOMAIN articles :
             /\ IsArticle(articles[k])
             /\ articles[k].status = 200
             /\ \E i \in OkDone :
                  /\ articles[k] = results[i]
                  /\ Cardinality({j \in OkDone : j < i}) = k - 1

\* C15 happens: fetch_many has returned two Articles for a url listed twice, from
\* a batch whose third task ended with a 404 Article.
ReturnsOnlyOkWitness ==
    /\ phase = "closed"
    /\ Len(urls) = 3
    /\ urls[1] = urls[3]
    /\ OkDone = {1, 3}
    /\ IsArticle(results[2])
    /\ Len(articles) = 2

\* C16: a task holds a permit from before its request until it ends, and gives
\* back exactly the one it took however it ends (Article, None, or an exception
\* or cancellation leaving fetch_one): the free permits are always K less the
\* tasks inside the gate, and K once fetch_many has returned.
PermitsBalanced ==
    /\ semaphore = capacity - Cardinality(Holders)
    /\ \A i \in Tasks : pc[i] \in {"request", "read"} => Holding(i)
    /\ phase = "closed" => semaphore = capacity

\* C16 happens: fetch_many has returned from a batch of three through a gate of
\* two whose tasks ended with an exception, a non-200 Article and a None, and
\* both permits are free.
PermitsBalancedWitness ==
    /\ phase = "closed"
    /\ capacity = 2
    /\ semaphore = 2
    /\ \E i, j, k \in Tasks :
         /\ results[i] = Raised
         /\ IsArticle(results[j]) /\ results[j].status # 200
         /\ resp[k].kind = "error" /\ results[k] = None

\* C17: fetch_many returns only when each of its tasks has ended, whether the
\* first to end succeeded or failed; when it has returned no task holds a permit
\* or is inside a request.
JoinBeforeReturn ==
    /\ [](phase = "closed" =>
            /\ \A i \in Tasks : pc[i] = "done" /\ results[i] # Pending
            /\ Holders = {})
    /\ [][(phase = "gather" /\ phase' # "gather") =>
            \A i \in Tasks : pc[i] = "done"]_vars

\* C17 happens: through a gate of one, the first task of three failed and the
\* last succeeded, and fetch_many has returned that one Article.
JoinBeforeReturnWitness ==
    /\ phase = "closed"
    /\ capacity = 1
    /\ Len(urls) = 3
    /\ results[1] = None
    /\ IsArticle(results[3]) /\ results[3].status = 200
    /\ Len(articles) >= 1

\* C18: with K >= 1 and every sleep, request and read ending, each task waiting
\* at the gate gets its permit and fetch_many returns.
NoStarvation ==
    /\ \A i \in 1..MaxUrls :
         (phase = "gather" /\ capacity >= 1 /\ i \in Tasks /\ pc[i] = "wait")
            ~> (i \in Tasks /\ pc[i] # "wait")
    /\ (phase = "gather" /\ capacity >= 1) ~> (phase = "closed")

\* C18 happens: the last of three tasks waits at a gate of one whose permit
\* another task holds.
NoStarvationWitness ==
    /\ phase = "gather"
    /\ capacity = 1
    /\ Len(urls) = 3
    /\ semaphore = 0
    /\ pc[1] = "done"
    /\ pc[3] = "wait"

\* C19: crawl_and_store issues no store write while its batch is under way; each
\* write is one insert_article call made when every fetch task has ended and the
\* session is closed, and no store connection is open between the writes.
SequentialWrites ==
    /\ []((caller = "pipeline" /\ phase = "gather") => (calls = <<>> /\ conns = 0))
    /\ []((caller = "pipeline" /\ phase = "store") => conns = 0)
    /\ [][(phase = "store" /\ calls' # calls) =>
            /\ Len(calls') = Len(calls) + 1
            /\ \A i \in Tasks : pc[i] = "done"
            /\ Holders = {}
            /\ ~session]_vars

\* C19 happens: after a batch fetched through a gate of two, crawl_and_store has
\* made its second write, for another url than the first.
SequentialWritesWitness ==
    /\ phase = "store"
    /\ capacity = 2
    /\ Len(calls) = 2
    /\ calls[1].rec.url # calls[2].rec.url
    /\ idx = 2

\* C20: a store operation closes the connection it opened on every way out, a
\* get_articles stream whose consumer stopped before its end included: no
\* connection is open once the caller has finished with the operation.
ConnectionsClosed == (stream = NoStream \/ stream.state = "stopped") => conns = 0

\* C21: a crawl_and_store call opens one session, when it starts its batch and at
\* no other step; every request of the batch is issued with that session open;
\* and the session is closed when the fetch phase is left, before the first store
\* write.
OneSessionPerRun ==
    /\ []((caller = "pipeline" /\ phase = "gather") => session)
    /\ []((caller = "pipeline" /\ phase = "store") => ~session)
    /\ [][(~session /\ session') => (ops' = ops + 1 /\ phase' = "gather")]_vars
    /\ [][(ops' = ops + 1 /\ phase' = "gather") => (~session /\ session')]_vars
    /\ [][(phase = "gather" /\ phase' = "gather") =>
            \A i \in Tasks : (pc[i] = "request" /\ pc'[i] # "request") => session]_vars
    /\ [][calls' # calls => ~session]_vars

\* C21 happens: the run's session is closed and crawl_and_store has made its first
\* write after a batch in which the other fetch failed.
OneSessionPerRunWitness ==
    /\ phase = "store"
    /\ ~session
    /\ Len(urls) = 2
    /\ stats.failed = 1
    /\ Len(calls) = 1
    /\ Accepted(LastCall)

\* C22: every fetch_one call adds one to exactly one of the crawler's success and
\* failed counters: when fetch_many has returned from N URLs on a fresh crawler,
\* success + failed = N and success is the number of Articles returned.
CountersExact ==
    phase = "closed" =>
        /\ cstats.success + cstats.failed = Len(urls)
        /\ cstats.success = Len(articles)

\* How far a fetch_one coroutine has come.
Rank(p) ==
    CASE p = "wait" -> 0
      [] p = "sleep" -> 1
      [] p = "request" -> 2
      [] p = "read" -> 3
      [] p = "done" -> 4

Delaying(i) == pc[i] = "sleep"

\* C29: a fetch_one task acquires the gate, then waits the delay, then issues its
\* request, then releases: a request is only ever issued by a task coming out of
\* its delay, the first of a batch included, a delay is only ever entered from
\* the wait at the gate, and the delay is spent holding a permit, so that
\* delaying tasks count against K.
DelayInsideGate ==
    /\ [][(phase = "gather" /\ phase' = "gather") =>
            \A i \in Tasks :
                /\ (pc'[i] = "request" /\ pc[i] # "request") => Delaying(i)
                /\ (pc'[i] = "sleep" /\ pc[i] # "sleep") =>
                      (pc[i] = "wait" /\ semaphore' = semaphore - 1)
                /\ (pc[i] = "wait" /\ pc'[i] # "wait") => pc'[i] = "sleep"]_vars
    /\ [](Cardinality({i \in Tasks : Delaying(i)}) <= capacity - semaphore)

\* C29 happens: the first task of a batch is in its delay with the only permit
\* while the second waits at the gate, no request issued yet.
DelayInsideGateWitness ==
    /\ phase = "gather"
    /\ capacity = 1
    /\ semaphore = 0
    /\ Len(urls) >= 2
    /\ Delaying(1)
    /\ \A i \in Tasks : i > 1 => pc[i] = "wait"

\* C30: the text handed to the extraction is the body cut to its first 1,000,000
\* characters, never more; a longer body is cut without the fetch failing; and the
\* status-200 Article has a title of at most 200 and a content of at most 10000
\* characters.
BodyCapped ==
    soup # NoBody =>
        /\ BodyLen(soup) <= BodyCap
        /\ BodyLen(soup) = Min(BodyLen(html), BodyCap)
        /\ art.status = 200
        /\ Len(art.title) <= ExtractTitleCap
        /\ Len(art.content) <= ExtractContentCap
        /\ art.title = Prefix(soup.title, ExtractTitleCap)
        /\ art.content = Prefix(soup.content, ExtractContentCap)

\* C30 happens: a body longer than 1,000,000 characters, with a title and a
\* content longer than their caps, has been read into an Article.
BodyCappedWitness ==
    /\ soup # NoBody
    /\ BodyLen(html) > BodyCap
    /\ Len(html.title) > ExtractTitleCap
    /\ Len(html.content) > ExtractContentCap
    /\ art.status = 200

\* The rows a get_articles(src, ...) call selects from.
Eligible(src) == {row \in rows : src = "" \/ row.source = src}

\* The whole sequence of the open get_articles stream: yielded and still to come.
Yielded == stream.got \o stream.left

\* C27: get_articles(source, limit, offset) yields at most limit stored rows, no
\* row twice, in non-increasing created_at order; with a source filter every row
\* has that source and with none the rows of all sources are eligible; the rows
\* are those at places offset+1, offset+2, ... of the eligible rows ordered from
\* latest to earliest, as many as the limit and the store allow.
QueryPaged ==
    stream # NoStream =>
        LET q == stream.query
            E == Eligible(q.source)
            n == Cardinality(E) - q.offset
        IN /\ Len(Yielded) <= q.limit
           /\ Len(Yielded) = Min(q.limit, IF n > 0 THEN n ELSE 0)
           /\ \A i \in DOMAIN Yielded : Yielded[i] \in E
           /\ \A i, j \in DOMAIN Yielded : i < j =>
                 /\ Yielded[i] # Yielded[j]
                 /\ Yielded[i].created_at >= Yielded[j].created_at
           /\ q.source # "" => \A i \in DOMAIN Yielded : Yielded[i].source = q.source
           /\ \A i \in DOMAIN Yielded :
                 /\ Cardinality({row \in E : row.created_at > Yielded[i].created_at})
                      <= q.offset + i - 1
                 /\ Cardinality({row \in E : row.created_at >= Yielded[i].created_at})
                      >= q.offset + i

\* C27 happens: a filtered stream that skipped one row has yielded its last row,
\* the earlier of the two it could have, while the store holds a row of another
\* source.
QueryPagedWitness ==
    /\ stream # NoStream
    /\ stream.query.source # ""
    /\ stream.query.offset = 1
    /\ stream.query.limit = 100
    /\ stream.left = <<>>
    /\ Len(stream.got) = 1
    /\ \E row \in rows : row.source # stream.query.source
    /\ \E row \in rows : row.created_at > stream.got[1].created_at

\* search_by_keyword with the keyword looked for as it stands
search_by_keyword_literal(rs, kw, limit) ==
    {LimitOffset(o, limit, 0) :
        o \in Orderings({row \in rs :
               \E t \in {row.title, row.content} : \E a \in 0..Len(t) :
                   /\ a + Len(kw) <= Len(t)
                   /\ \A j \in 1..Len(kw) : LikeFold(t[a + j]) = LikeFold(kw[j])})}

\* C28: search_by_keyword(keyword, limit) returns at most limit rows, latest
\* first, of the rows whose title or content holds the keyword as a substring,
\* every character standing for itself and the case of letters ignored.
SearchLiteral ==
    \A i \in DOMAIN calls :
        calls[i].tag = "search_by_keyword" /\ calls[i].fault = "none" =>
            /\ Len(calls[i].ret) <= calls[i].arg.limit
            /\ calls[i].ret \in
                 search_by_keyword_literal(rows, calls[i].arg.keyword, calls[i].arg.limit)

\* The entry lies inside a hidden directory: a directory below the root, on the
\* way to the entry, has a name that starts with a dot.
InHiddenDir(e) == \E i \in 1..Len(e.path) - 1 : StartsWithDot(e.path[i])

\* The paths the latest scan yielded.
YieldedPaths == {scanned.files[i].path : i \in DOMAIN scanned.files}

\* C24: wherever the root lies, scan yields the regular files below the root
\* that match the pattern and lie inside no hidden directory (those that can be
\* read as UTF-8, at the least), and no file that lies inside one.
ScanComplete ==
    scanned # NoScan =>
        /\ \A e \in fs :
             (/\ e.kind = "file"
              /\ e.readable
              /\ Matches(e.path[Len(e.path)], scanned.pattern)
              /\ ~InHiddenDir(e)) => analyzer.root \o e.path \in YieldedPaths
        /\ \A e \in fs : InHiddenDir(e) => analyzer.root \o e.path \notin YieldedPaths

\* C25: after every generate_report call, the first on an analyzer or a later
\* one, summary.total_files is the number of files the scan of that call
\* yielded and summary.total_lines the sum of their line counts.
ReportTotals ==
    (scanned # NoScan /\ scanned.call = "generate_report") =>
        /\ report.summary.total_files = Len(scanned.files)
        /\ report.summary.total_lines = SumLines(scanned.files)

\* The entry of the tree a path of the scan names.
EntryAt(path) == CHOOSE e \in fs : analyzer.root \o e.path = path

\* C26: in the report of generate_report(top_n), top_n >= 0, largest_files has
\* min(top_n, files scanned) entries, no file twice, each with the size of its
\* file, largest first, and no scanned file left out is larger than one listed;
\* recent_files has at most top_n entries, as many as top_n and the recent files
\* allow, each a scanned file modified within the last RecentDays days, latest
\* first.
ReportRanked ==
    (scanned # NoScan /\ scanned.call = "generate_report") =>
        LET L == report.largest_files
            R == report.recent_files
            F == YieldedPaths
            Recent == {p \in F : Today - EntryAt(p).mtime <= RecentDays}
        IN /\ Len(L) <= report.top_n
           /\ Len(L) = Min(report.top_n, Cardinality(F))
           /\ \A i \in DOMAIN L :
                L[i].path \in F /\ L[i].size_kb * 1024 = EntryAt(L[i].path).size
           /\ \A i, j \in DOMAIN L : i < j =>
                L[i].path # L[j].path /\ L[i].size_kb >= L[j].size_kb
           /\ \A p \in F : \A i \in DOMAIN L :
                p \notin {L[j].path : j \in DOMAIN L} =>
                    EntryAt(p).size <= EntryAt(L[i].path).size
           /\ Len(R) <= report.top_n
           /\ Len(R) = Min(report.top_n, Cardinality(Recent))
           /\ \A i \in DOMAIN R : R[i] \in Recent
           /\ \A i, j \in DOMAIN R : i < j =>
                R[i] # R[j] /\ EntryAt(R[i]).mtime >= EntryAt(R[j]).mtime

\* C26 happens: three files were scanned, a smaller one before a larger one and
\* an older recent one before a newer one, one of them not recent, and the
\* report lists the top two of each ranking.
ReportRankedWitness ==
    /\ scanned # NoScan
    /\ scanned.call = "generate_report"
    /\ report.top_n = 2
    /\ Len(scanned.files) = 3
    /\ \E i, j \in DOMAIN scanned.files :
         /\ i < j
         /\ EntryAt(scanned.files[i].path).size < EntryAt(scanned.files[j].path).size
    /\ \E i, j \in DOMAIN scanned.files :
         /\ i < j
         /\ is_recent(scanned.files[i])
         /\ scanned.files[i].last_modified < scanned.files[j].last_modified
    /\ \E i \in DOMAIN scanned.files : ~is_recent(scanned.files[i])
    /\ Len(report.largest_files) = 2
    /\ Len(report.recent_files) = 2

\* C31: a store transaction is committed only when its operation completed
\* without error: an insert_article call that hit a storage error ends with its
\* transaction rolled back, not committed, returns None and leaves the store as
\* it was.
CommitOnlyOnSuccess ==
    \A i \in DOMAIN calls :
        calls[i].tag = "insert_article" =>
            /\ calls[i].ret = None => calls[i].txn = "rollback"
            /\ calls[i].txn = "commit" => calls[i].ret \notin {None, Raised}

\* C32: the upsert is last-write-wins by call order, with no version check:
\* after an accepted insert_article call the row of its url carries the title,
\* content and fetched_at of that call, also when the row stored before had a
\* later fetched_at.
OutOfOrderOverwrite ==
    (calls # <<>> /\ Accepted(LastCall)) =>
        \A row \in RowsOf(rows, LastCall.rec.url) :
            /\ row.title = LastCall.rec.title
            /\ row.content = LastCall.rec.content
            /\ row.fetched_at = LastCall.rec.fetched_at

\* C32 happens: an accepted write carried an older fetched_at, and another
\* title, than the row it found, and the row now shows the older fetched_at.
OutOfOrderOverwriteWitness ==
    /\ calls # <<>>
    /\ Accepted(LastCall)
    /\ LastCall.before # NoRow
    /\ LastCall.rec.fetched_at.iso < LastCall.before.fetched_at.iso
    /\ LastCall.rec.title # LastCall.before.title
    /\ \E row \in rows :
         /\ row.url = LastCall.rec.url
         /\ row.fetched_at.iso < LastCall.before.fetched_at.iso

RECURSIVE SumOf(_)
\* The sum of the values of a function with a finite domain.
SumOf(f) ==
    IF DOMAIN f = {} THEN 0
    ELSE LET x == CHOOSE y \in DOMAIN f : TRUE
         IN f[x] + SumOf([y \in DOMAIN f \ {x} |-> f[y]])

\* C33: whatever the store holds, get_stats returns a total_articles equal to
\* the number of rows and to the sum of the by_source counts, and by_source has
\* one entry for each source label present, the number of rows carrying it.
GetStatsAgrees ==
    \A i \in DOMAIN calls :
        calls[i].tag = "get_stats" /\ calls[i].fault = "none" =>
            LET ret == calls[i].ret
            IN /\ ret.total_articles = Cardinality(rows)
               /\ ret.total_articles = SumOf(ret.by_source)
               /\ DOMAIN ret.by_source = {row.source : row \in rows}
               /\ \A src \in DOMAIN ret.by_source :
                    ret.by_source[src] = Cardinality({row \in rows : row.source = src})

\* C33 happens: get_stats has returned on a store of three rows under two
\* source labels.
GetStatsAgreesWitness ==
    /\ calls # <<>>
    /\ LastCall.tag = "get_stats"
    /\ LastCall.fault = "none"
    /\ Cardinality(rows) = 3
    /\ Cardinality(DOMAIN LastCall.ret.by_source) = 2

\* The wrapper has returned or raised.
RetryEnded == wrapper # NoWrapper /\ wrapper.pc \in {"returned", "raised"}

\* The places of the log where the wrapped function was called.
CallsAt == {i \in DOMAIN wrapper.log : wrapper.log[i].event = "call"}

\* The call at place i of the log raised an exception the except clause lists.
RaisedListed(i) ==
    /\ wrapper.log[i].out.kind = "raise"
    /\ wrapper.log[i].out.class \in wrapper.exceptions

\* C34: the wrapped function is invoked at most max_attempts times (never, when
\* max_attempts is below one); a value the wrapper returns from its try block
\* is that of the first call that did not raise, which is the last call made;
\* when max_attempts calls all raised a listed exception the wrapper raises the
\* exception of the last of them; and each sleep lies between two calls, the
\* first of which raised a listed exception, never after the final call.
RetryBounded ==
    wrapper # NoWrapper =>
        /\ Cardinality(CallsAt) <= (IF wrapper.max_attempts > 0 THEN wrapper.max_attempts ELSE 0)
        /\ \A i \in CallsAt :
             wrapper.log[i].out.kind = "return" =>
                 /\ i = Len(wrapper.log)
                 /\ wrapper.pc = "returned"
                 /\ wrapper.result.at = "return result"
                 /\ wrapper.result.value = wrapper.log[i].out.value
                 /\ \A j \in CallsAt : j < i => wrapper.log[j].out.kind = "raise"
        /\ (/\ RetryEnded
            /\ wrapper.max_attempts >= 1
            /\ Cardinality(CallsAt) = wrapper.max_attempts
            /\ \A i \in CallsAt : RaisedListed(i)) =>
                 /\ wrapper.pc = "raised"
                 /\ wrapper.result.exc =
                      Exc(wrapper.log[Len(wrapper.log)].out.class, wrapper.max_attempts)
        /\ \A i \in DOMAIN wrapper.log :
             wrapper.log[i].event = "sleep" =>
                 /\ i > 1
                 /\ i - 1 \in CallsAt
                 /\ RaisedListed(i - 1)
                 /\ wrapper.log[i - 1].attempt < wrapper.max_attempts
                 /\ RetryEnded => i + 1 \in CallsAt

\* C34 happens: with max_attempts = 3 all three calls raised a listed exception;
\* the wrapper slept twice and raised the exception of the third call.
RetryBoundedWitness ==
    /\ RetryEnded
    /\ wrapper.max_attempts = 3
    /\ Cardinality(CallsAt) = 3
    /\ Len(wrapper.log) = 5
    /\ wrapper.pc = "raised"
    /\ wrapper.result.exc.attempt = 3
    /\ wrapper.log[1].out.class # wrapper.log[5].out.class

\* C35: when a call of the wrapped function raises an exception that the
\* exceptions tuple does not list, that exception leaves the wrapper at once:
\* the call is the last one made and no sleep follows it.
UnlistedPropagates ==
    wrapper # NoWrapper =>
        \A i \in CallsAt :
            (wrapper.log[i].out.kind = "raise" /\ ~RaisedListed(i)) =>
                /\ i = Len(wrapper.log)
                /\ wrapper.pc = "raised"
                /\ wrapper.result.exc = Exc(wrapper.log[i].out.class, wrapper.log[i].attempt)

\* C35 happens: after a listed exception and a sleep, the second of three
\* allowed attempts raised an exception that is not listed, and the wrapper
\* raised it.
UnlistedPropagatesWitness ==
    /\ RetryEnded
    /\ wrapper.max_attempts = 3
    /\ Len(wrapper.log) = 3
    /\ RaisedListed(1)
    /\ wrapper.log[3].out.kind = "raise"
    /\ ~RaisedListed(3)
    /\ wrapper.pc = "raised"

\* C36: for every max_attempts the wrapper ends by returning the value of a
\* call of the wrapped function or by raising; the return None after the loop
\* is never reached, so the wrapper never returns without a call made.
TrailingReturnUnreached ==
    (wrapper # NoWrapper /\ wrapper.pc = "returned") =>
        /\ wrapper.result.at = "return result"
        /\ CallsAt # {}

====
